---------------------------- MODULE Spec2Model ----------------------------
(***************************************************************************)
(* autobuffer (src/main.go): a remote file is fetched over HTTP into a     *)
(* local file.  NewVideoStream opens the response and the output file,     *)
(* StartStream samples the bandwidth, estimates the buffer time, writes    *)
(* the last chunk first, then copies the resource chunk by chunk and       *)
(* prints "ready to play" once the buffer time has passed.                 *)
(*                                                                         *)
(* Sizes are scaled: chunkSize is 3 bytes instead of 10000 and the sample  *)
(* is sampleChunks = 2 chunks instead of 2000, so that a resource of a few *)
(* bytes is smaller than, equal to or larger than the sample, and is or is *)
(* not a multiple of the chunk size.  Times are whole seconds; float64     *)
(* quantities are exact fractions <<numerator, denominator>>.              *)
(***************************************************************************)
EXTENDS Integers, Sequences, FiniteSets, TLC

\* ---------------------------------------------------------------- bounds
\* Largest remote resource, in bytes.
MaxSize == 9
\* Largest target playback duration, in seconds.
MaxDuration == 3
\* Longest time the bandwidth sample takes, in seconds.
MaxElapsed == 2
\* Most i/o failures (transport, seek, write) in one run.
MaxFaults == 1

\* ------------------------------------------------------ program constants
\* chunkSize (10000 in the source, scaled).
chunkSize == 3
\* The number of chunks getBandwidth downloads (2000 in the source, scaled).
sampleChunks == 2
\* fudgeFactor = 1.2 = FudgeNum / FudgeDen.
FudgeNum == 6
FudgeDen == 5
\* The default of the -duration flag, time.Second, in seconds.
DefaultDuration == 1

None == "none"

\* A nil *VideoStreamer.
Nil == [nil |-> TRUE]

Min(a, b) == IF a < b THEN a ELSE b

\* ------------------------------------------------------ the remote resource
\* Byte i (0-based) of the remote resource: every offset holds its own value,
\* and no byte is 0, the value of a hole in the output file.
Data(i) == i + 1

\* The first S bytes of the resource, as a sequence.
Resource(S) == [i \in 1..S |-> Data(i - 1)]

Digit(d) == CASE d = 0 -> "0" [] d = 1 -> "1" [] d = 2 -> "2" [] d = 3 -> "3"
              [] d = 4 -> "4" [] d = 5 -> "5" [] d = 6 -> "6" [] d = 7 -> "7"
              [] d = 8 -> "8" [] d = 9 -> "9"

\* strconv.Itoa of a non-negative number: how the server writes Content-Length.
RECURSIVE Itoa(_)
Itoa(n) == IF n < 10 THEN <<Digit(n)>> ELSE Append(Itoa(n \div 10), Digit(n % 10))

DigitChars == {"0", "1", "2", "3", "4", "5", "6", "7", "8", "9"}

DigitVal(c) == CHOOSE d \in 0..9 : Digit(d) = c

\* The value of a string of digits read left to right, acc the value so far.
RECURSIVE ParseDigits(_, _)
ParseDigits(s, acc) ==
    IF s = <<>> THEN acc
    ELSE ParseDigits(Tail(s), acc * 10 + DigitVal(Head(s)))

\* strconv.Atoi: an optional sign, then one or more digits; anything else is
\* an error.
Atoi(s) ==
    LET signed == s # <<>> /\ Head(s) \in {"+", "-"}
        body   == IF signed THEN Tail(s) ELSE s
    IN  IF body = <<>> \/ \E i \in 1..Len(body) : body[i] \notin DigitChars
        THEN [ok |-> FALSE, val |-> 0]
        ELSE [ok |-> TRUE,
              val |-> IF signed /\ Head(s) = "-" THEN 0 - ParseDigits(body, 0)
                      ELSE ParseDigits(body, 0)]

\* Content-Length values that are not a number.
BadHeaders == {<<>>, <<"x">>, <<"1", "x">>}

\* ------------------------------------------------------------- io helpers
\* One Read of the underlying network reader with room for len > 0 bytes at
\* offset pos of a body of S bytes: some bytes (a short read is allowed), the
\* last bytes together with io.EOF, io.EOF alone at the end, or a transport
\* error.  n bytes were stored in the buffer.
NetRead(len, pos, S) ==
    LET left == IF S > pos THEN S - pos ELSE 0
    IN  {[n |-> k, err |-> "nil"] : k \in 1..Min(len, left)}
        \cup (IF left > 0 /\ left <= len THEN {[n |-> left, err |-> "EOF"]} ELSE {})
        \cup (IF left = 0 THEN {[n |-> 0, err |-> "EOF"]} ELSE {})
        \cup {[n |-> 0, err |-> "net"]}

\* FileStream.Read: the underlying Read's count is returned only when its
\* error is nil; with an error the count reported is 0, whatever was stored.
\* stored is what the underlying reader put in the buffer and moved on by.
FileStreamRead(len, pos, S) ==
    {[n |-> IF r.err # "nil" THEN 0 ELSE r.n, err |-> r.err, stored |-> r.n] :
        r \in NetRead(len, pos, S)}

\* buf with k bytes of the resource from offset pos stored at index n (0-based).
Store(buf, n, k, pos) ==
    [i \in 1..Len(buf) |-> IF i > n /\ i <= n + k THEN Data(pos + i - n - 1) ELSE buf[i]]

\* io.ReadFull(vs.fs, buf), n bytes counted so far: the outcomes
\* [n, err, buf, pos] of reading until the buffer is full or a Read fails.
\* Fewer bytes than the buffer holds give io.EOF when none was counted and
\* io.ErrUnexpectedEOF when some were.
RECURSIVE ReadFullFrom(_, _, _, _)
ReadFullFrom(n, buf, pos, S) ==
    IF n >= Len(buf)
    THEN {[n |-> n, err |-> "nil", buf |-> buf, pos |-> pos]}
    ELSE UNION {
           LET buf2 == Store(buf, n, r.stored, pos)
               n2   == n + r.n
               pos2 == pos + r.stored
           IN  IF r.err = "nil"
               THEN ReadFullFrom(n2, buf2, pos2, S)
               ELSE {[n |-> n2,
                      err |-> IF n2 >= Len(buf) THEN "nil"
                              ELSE IF n2 > 0 /\ r.err = "EOF" THEN "ErrUnexpectedEOF"
                              ELSE r.err,
                      buf |-> buf2, pos |-> pos2]}
           : r \in FileStreamRead(Len(buf) - n, pos, S) }

ReadFull(buf, pos, S) == ReadFullFrom(0, buf, pos, S)

\* The file after k bytes of p are written at offset pos: a write past the end
\* leaves a hole of zero bytes before it.
WriteAt(f, pos, p, k) ==
    LET newLen == IF pos + k > Len(f) THEN pos + k ELSE Len(f)
    IN  [i \in 1..newLen |->
            IF i > pos /\ i <= pos + k THEN p[i - pos]
            ELSE IF i <= Len(f) THEN f[i] ELSE 0]

\* FileStream.Write(p) on the output file at offset pos: all of p is written,
\* or the write fails after k < Len(p) bytes and 0 is reported with the error.
FileStreamWrite(f, pos, p) ==
    {[err |-> "nil", file |-> WriteAt(f, pos, p, Len(p)), pos |-> pos + Len(p)]}
    \cup {[err |-> "write", file |-> WriteAt(f, pos, p, k), pos |-> pos + k] :
            k \in 0..(Len(p) - 1)}

\* FileStream.Seek that moves the network reader and leaves the file where
\* it is.
FileStreamSeekNetOnly(offset, npos, fpos) ==
    (IF offset >= 0 THEN {[err |-> "nil", net |-> offset, file |-> fpos]} ELSE {})
    \cup {[err |-> "seek", net |-> npos, file |-> fpos]}

\* FileStream.Seek(offset, 0): the network reader is moved first and the file
\* second; a failure of the first leaves the second where it was.
\* A negative offset is refused.
FileStreamSeek(offset, npos, fpos) ==
    (IF offset >= 0 THEN {[err |-> "nil", net |-> offset, file |-> offset]} ELSE {})
    \cup {[err |-> "seek", net |-> npos, file |-> fpos]}
    \cup (IF offset >= 0 THEN {[err |-> "seek", net |-> offset, file |-> fpos]} ELSE {})

\* --------------------------------------------------------------- estimate
\* float64(sz) / elapsed seconds: the bandwidth, bytes per second.
Bandwidth(sz, elapsed) == <<sz, elapsed>>

\* (bw / float64(vs.Size)) * fudgeFactor: the ratio the wrong way up.
DownloadTimeInverted(size, bw) == <<bw[1] * FudgeNum, size * bw[2] * FudgeDen>>

\* (float64(vs.Size) / bw) * fudgeFactor
DownloadTime(size, bw) == <<size * bw[2] * FudgeNum, bw[1] * FudgeDen>>

\* math.Max(0, downloadTime - vs.Duration.Seconds())
BufferTime(size, bw, duration) ==
    LET dt   == DownloadTime(size, bw)
        diff == <<dt[1] - duration * dt[2], dt[2]>>
    IN  IF diff[1] > 0 THEN diff ELSE <<0, 1>>

\* time.Since(tstart).Seconds() > bufferTime, read when the loop's clock shows
\* t whole seconds: the time read is strictly between t and t + 1, so the
\* comparison is decided unless bufferTime lies strictly between them too.
After(t, bt) ==
    IF t * bt[2] >= bt[1] THEN {TRUE}
    ELSE IF (t + 1) * bt[2] <= bt[1] THEN {FALSE}
    ELSE BOOLEAN


\* ------------------------------------------------------------------ state
VARIABLES
    pc,             \* where the program is
    caller,         \* "main" (the command line) or "lib" (a direct caller)
    hdr,            \* res.Header["Content-Length"]: the header's values, none or one
    S,              \* the number of bytes the remote resource holds
    duration,       \* the duration passed to NewVideoStream
    vs,             \* the *VideoStreamer NewVideoStream returned
    ctorErr,        \* the error NewVideoStream returned
    bodyOpen,       \* the response body (the network connection) is open
    fileOpen,       \* the output file's handle is open
    fileExists,     \* there is a file at the output path
    file,           \* the output file's bytes
    filePos,        \* the output file's offset
    netPos,         \* the network reader's offset
    chunk,          \* StartStream's chunk buffer
    sampleRead,     \* the bytes getBandwidth's ReadFull took from the body
    bw,             \* getBandwidth's estimate, <<bytes, seconds>>
    bufferTime,     \* StartStream's bufferTime, <<numerator, denominator>>
    clock,          \* the whole seconds in time.Since(tstart)
    readynotified,  \* StartStream's readynotified
    done,           \* StartStream's done
    streamErr,      \* the error StartStream returned
    printed,        \* the messages printed so far
    readyCount,     \* how many times "This video is now ready to play." was printed
    faults,         \* the i/o failures that have happened, in order
    writes          \* the writes made to the output file, <<offset, bytes>> each

vars == <<pc, caller, hdr, S, duration, vs, ctorErr, bodyOpen, fileOpen, fileExists, file,
          filePos, netPos, chunk, sampleRead, bw, bufferTime, clock,
          readynotified, done, streamErr, printed, readyCount, faults, writes>>

sessionVars == <<vs, ctorErr, bodyOpen, fileOpen, fileExists>>
ioVars      == <<file, filePos, netPos, chunk, writes, faults>>
estVars     == <<sampleRead, bw, bufferTime>>
loopVars    == <<clock, readynotified, done>>
envVars     == <<hdr, S>>

Zeros(n) == [i \in 1..n |-> 0]

\* The remote resource: S bytes, served with its Content-Length, with none
\* (a chunked response), or with one that is not a number.
Init ==
    /\ S \in 0..MaxSize
    /\ hdr \in {<<>>, <<Itoa(S)>>} \cup {<<b>> : b \in BadHeaders}
    /\ pc = "start"
    /\ caller = None
    /\ duration = 0
    /\ vs = Nil
    /\ ctorErr = None
    /\ bodyOpen = FALSE
    /\ fileOpen = FALSE
    /\ fileExists = FALSE
    /\ file = <<>>
    /\ filePos = 0
    /\ netPos = 0
    /\ chunk = <<>>
    /\ sampleRead = 0
    /\ bw = <<0, 1>>
    /\ bufferTime = <<0, 1>>
    /\ clock = 0
    /\ readynotified = FALSE
    /\ done = FALSE
    /\ streamErr = None
    /\ printed = {}
    /\ readyCount = 0
    /\ faults = <<>>
    /\ writes = <<>>

\* ------------------------------------------------------------------ main
\* main, up to the call of NewVideoStream: without -url, or with -duration
\* left at (or set to) its default, the usage is printed and main returns.
Main ==
    /\ pc = "start"
    /\ caller' = "main"
    /\ \E url \in {"", "http://host/video"}, d \in 0..MaxDuration :
         IF url = "" \/ d = DefaultDuration
         THEN /\ printed' = printed \cup {"usage"}
              /\ pc' = "exit"
              /\ UNCHANGED duration
         ELSE /\ pc' = "new"
              /\ duration' = d
              /\ UNCHANGED printed
    /\ UNCHANGED <<sessionVars, ioVars, estVars, loopVars, envVars, streamErr, readyCount>>

\* A direct caller of NewVideoStream, as the tests are: any duration.
LibCall ==
    /\ pc = "start"
    /\ caller' = "lib"
    /\ pc' = "new"
    /\ duration' \in 0..MaxDuration
    /\ UNCHANGED <<sessionVars, ioVars, estVars, loopVars, envVars, streamErr,
                   printed, readyCount>>

\* The session NewVideoStream returns, with the duration left out.
NewSessionNoDuration(sz, d) == [Size |-> sz, Duration |-> 0]

\* &VideoStreamer{Size: int64(sz), Duration: duration, fs: ...}
NewSession(sz, d) == [Size |-> sz, Duration |-> d]

\* NewVideoStream: the request, the output file (created empty), the header,
\* the session.
NewVideoStream ==
    /\ pc = "new"
    /\ \/ \* http.DefaultClient.Do fails: nothing was opened.
          /\ ctorErr' = "conn"
          /\ pc' = "newret"
          /\ UNCHANGED <<vs, bodyOpen, fileOpen, fileExists>>
       \/ \* os.Create fails: the response is left as it is.
          /\ bodyOpen' = TRUE
          /\ ctorErr' = "create"
          /\ pc' = "newret"
          /\ UNCHANGED <<vs, fileOpen, fileExists>>
       \/ \* No Content-Length: res.Header["Content-Length"][0] indexes an
          \* empty slice and panics.
          /\ hdr = <<>>
          /\ bodyOpen' = TRUE
          /\ fileOpen' = TRUE
          /\ fileExists' = TRUE
          /\ pc' = "crashed"
          /\ UNCHANGED <<vs, ctorErr>>
       \/ \* strconv.Atoi fails: the error is returned.
          /\ hdr # <<>>
          /\ ~Atoi(hdr[1]).ok
          /\ bodyOpen' = TRUE
          /\ fileOpen' = TRUE
          /\ fileExists' = TRUE
          /\ ctorErr' = "atoi"
          /\ pc' = "newret"
          /\ UNCHANGED vs
       \/ /\ hdr # <<>>
          /\ Atoi(hdr[1]).ok
          /\ bodyOpen' = TRUE
          /\ fileOpen' = TRUE
          /\ fileExists' = TRUE
          /\ vs' = NewSession(Atoi(hdr[1]).val, duration)
          /\ ctorErr' = "nil"
          /\ pc' = "newret"
    /\ UNCHANGED <<caller, duration, ioVars, estVars, loopVars, envVars, streamErr,
                   printed, readyCount>>

\* main after NewVideoStream: an error is printed, and StartStream is called
\* whether or not there was one.
MainAfterNew ==
    /\ pc = "newret"
    /\ caller = "main"
    /\ printed' = IF ctorErr # "nil" THEN printed \cup {"Error creating video stream"}
                  ELSE printed
    /\ pc' = "stream"
    /\ UNCHANGED <<caller, duration, sessionVars, ioVars, estVars, loopVars, envVars,
                   streamErr, readyCount>>

\* A direct caller after NewVideoStream: it stops on an error.
LibAfterNew ==
    /\ pc = "newret"
    /\ caller = "lib"
    /\ pc' = IF ctorErr # "nil" THEN "exit" ELSE "stream"
    /\ UNCHANGED <<caller, duration, sessionVars, ioVars, estVars, loopVars, envVars,
                   streamErr, printed, readyCount>>

\* ----------------------------------------------------------- StartStream
\* The number of bytes getBandwidth asks for.
SampleSize == chunkSize * sampleChunks

\* What a failed read, seek or write adds to the failures seen.
Fault(err) == IF err \in {"net", "write", "seek"} THEN <<err>> ELSE <<>>

\* The copy loop's clock is followed until it has passed every bufferTime
\* the estimate can give; later seconds change nothing.
MaxClock == (MaxSize * MaxElapsed * FudgeNum) \div (SampleSize * FudgeDen) + 1

\* StartStream up to the estimate: getBandwidth reads the sample, which fails
\* when the body ends first; the bandwidth is the size asked for over the
\* time taken.  On a nil session the first use of vs.fs panics.
GetBandwidth ==
    /\ pc = "stream"
    /\ printed' = printed \cup {"Buffering, please wait..."}
    /\ IF vs = Nil
       THEN /\ pc' = "crashed"
            /\ UNCHANGED <<netPos, faults, estVars, streamErr>>
       ELSE \E r \in ReadFull(Zeros(SampleSize), netPos, S), elapsed \in 1..MaxElapsed :
              /\ netPos' = r.pos
              /\ sampleRead' = r.pos - netPos
              /\ faults' = faults \o Fault(r.err)
              /\ Len(faults') <= MaxFaults
              /\ IF r.err # "nil"
                 THEN /\ streamErr' = r.err
                      /\ pc' = "streamret"
                      /\ UNCHANGED <<bw, bufferTime>>
                 ELSE /\ bw' = Bandwidth(SampleSize, elapsed)
                      /\ bufferTime' = BufferTime(vs.Size, bw', vs.Duration)
                      /\ pc' = "last"
                      /\ UNCHANGED streamErr
    /\ UNCHANGED <<caller, duration, sessionVars, file, filePos, chunk, writes,
                   loopVars, envVars, readyCount>>

\* The last chunk is fetched and written first: both ends seek to
\* Size - chunkSize, ReadFull's error is dropped, Write's is returned.
LastChunk ==
    /\ pc = "last"
    /\ \E sk \in FileStreamSeek(vs.Size - chunkSize, netPos, filePos) :
         IF sk.err # "nil"
         THEN /\ streamErr' = sk.err
              /\ pc' = "streamret"
              /\ netPos' = sk.net
              /\ filePos' = sk.file
              /\ chunk' = Zeros(chunkSize)
              /\ faults' = faults \o Fault(sk.err)
              /\ Len(faults') <= MaxFaults
              /\ UNCHANGED <<file, writes>>
         ELSE \E r \in ReadFull(Zeros(chunkSize), sk.net, S) :
              \E w \in FileStreamWrite(file, sk.file, r.buf) :
                /\ netPos' = r.pos
                /\ chunk' = r.buf
                /\ file' = w.file
                /\ filePos' = w.pos
                /\ writes' = Append(writes, <<sk.file, w.pos - sk.file>>)
                /\ faults' = faults \o Fault(r.err) \o Fault(w.err)
                /\ Len(faults') <= MaxFaults
                /\ IF w.err # "nil"
                   THEN /\ streamErr' = w.err
                        /\ pc' = "streamret"
                   ELSE /\ pc' = "rewind"
                        /\ UNCHANGED streamErr
    /\ UNCHANGED <<caller, duration, sessionVars, estVars, loopVars, envVars,
                   printed, readyCount>>

\* Both ends seek back to 0 and the loop's clock starts.
Rewind ==
    /\ pc = "rewind"
    /\ \E sk \in FileStreamSeek(0, netPos, filePos) :
         /\ netPos' = sk.net
         /\ filePos' = sk.file
         /\ faults' = faults \o Fault(sk.err)
         /\ Len(faults') <= MaxFaults
         /\ IF sk.err # "nil"
            THEN /\ streamErr' = sk.err
                 /\ pc' = "streamret"
                 /\ UNCHANGED loopVars
            ELSE /\ clock' = 0
                 /\ readynotified' = FALSE
                 /\ done' = FALSE
                 /\ pc' = "loop"
                 /\ UNCHANGED streamErr
    /\ UNCHANGED <<caller, duration, sessionVars, file, chunk, writes, estVars,
                   envVars, printed, readyCount>>

\* The head of an iteration: the loop ends once done is set; otherwise the
\* notification is printed if bufferTime has passed and it was not yet.
LoopHead ==
    /\ pc = "loop"
    /\ IF done
       THEN /\ streamErr' = "nil"
            /\ pc' = "streamret"
            /\ UNCHANGED <<readynotified, readyCount, printed>>
       ELSE /\ pc' = "read"
            /\ UNCHANGED streamErr
            /\ \E passed \in After(clock, bufferTime) :
                 IF passed /\ ~readynotified
                 THEN /\ readynotified' = TRUE
                      /\ readyCount' = readyCount + 1
                      /\ printed' = printed \cup {"This video is now ready to play."}
                 ELSE UNCHANGED <<readynotified, readyCount, printed>>
    /\ UNCHANGED <<caller, duration, sessionVars, ioVars, estVars, clock, done, envVars>>

\* io.ReadFull(vs.fs, chunk): io.ErrUnexpectedEOF ends the loop after this
\* iteration's write, any other error (io.EOF too) is returned.
LoopRead ==
    /\ pc = "read"
    /\ \E r \in ReadFull(chunk, netPos, S) :
         /\ netPos' = r.pos
         /\ chunk' = r.buf
         /\ faults' = faults \o Fault(r.err)
         /\ Len(faults') <= MaxFaults
         /\ IF r.err = "ErrUnexpectedEOF"
            THEN /\ done' = TRUE
                 /\ pc' = "write"
                 /\ UNCHANGED streamErr
            ELSE IF r.err # "nil"
            THEN /\ streamErr' = r.err
                 /\ pc' = "streamret"
                 /\ UNCHANGED done
            ELSE /\ pc' = "write"
                 /\ UNCHANGED <<done, streamErr>>
    /\ UNCHANGED <<caller, duration, sessionVars, file, filePos, writes, estVars,
                   clock, readynotified, envVars, printed, readyCount>>

\* vs.fs.Write(chunk): the whole buffer, and the result is dropped.
LoopWrite ==
    /\ pc = "write"
    /\ \E w \in FileStreamWrite(file, filePos, chunk) :
         /\ file' = w.file
         /\ filePos' = w.pos
         /\ writes' = Append(writes, <<filePos, w.pos - filePos>>)
         /\ faults' = faults \o Fault(w.err)
         /\ Len(faults') <= MaxFaults
    /\ pc' = "loop"
    /\ UNCHANGED <<caller, duration, sessionVars, netPos, chunk, estVars, loopVars,
                   envVars, streamErr, printed, readyCount>>

\* The loop's clock passes a whole second while the copy loop runs.
Tick ==
    /\ pc \in {"loop", "read", "write"}
    /\ clock < MaxClock
    /\ clock' = clock + 1
    /\ UNCHANGED <<pc, caller, duration, sessionVars, ioVars, estVars, readynotified,
                   done, envVars, streamErr, printed, readyCount>>

\* StartStream has returned: main prints its error, if any, and returns;
\* nothing is closed on the way.
StreamReturn ==
    /\ pc = "streamret"
    /\ printed' = IF caller = "main" /\ streamErr # "nil"
                  THEN printed \cup {"Error streaming"} ELSE printed
    /\ pc' = "exit"
    /\ UNCHANGED <<caller, duration, sessionVars, ioVars, estVars, loopVars, envVars,
                   streamErr, readyCount>>

Next ==
    \/ Main
    \/ LibCall
    \/ NewVideoStream
    \/ MainAfterNew
    \/ LibAfterNew
    \/ GetBandwidth
    \/ LastChunk
    \/ Rewind
    \/ LoopHead
    \/ LoopRead
    \/ LoopWrite
    \/ Tick
    \/ StreamReturn

Spec == Init /\ [][Next]_vars

TypeOK ==
    /\ pc \in {"start", "new", "newret", "stream", "last", "rewind", "loop", "read",
               "write", "streamret", "exit", "crashed"}
    /\ S \in 0..MaxSize
    /\ netPos \in 0..(MaxSize + chunkSize)
    /\ readyCount \in 0..1
    /\ clock \in 0..MaxClock

\* ----------------------------------------------------------------- claims
Range(s) == {s[i] : i \in 1..Len(s)}

\* The response carries a Content-Length that strconv.Atoi accepts.
UsableLength == hdr # <<>> /\ Atoi(hdr[1]).ok

\* NewVideoStream has ended: it returned, or it panicked.
NewVideoStreamEnded == pc = "newret" \/ (pc = "crashed" /\ ctorErr = None)

\* StartStream has returned from its copy phase (the last chunk was written).
CopyReturned == pc = "streamret" /\ writes # <<>>

\* C1: after a streaming run that returns no error (and met no i/o failure),
\* the output file has exactly S bytes and byte i of the file is byte i of
\* the remote resource.
C1_OutputEqualsResource ==
    (pc = "streamret" /\ streamErr = "nil" /\ faults = <<>>) => file = Resource(S)

\* C2: a streaming run (here one that met no i/o failure and returned no
\* error) prints the "ready to play" notification exactly once, also when the
\* stream ends before bufferTime has passed.
C2_ReadyExactlyOnce ==
    (pc = "streamret" /\ streamErr = "nil" /\ faults = <<>>) => readyCount = 1

\* C3: with no Content-Length header, or one that is not a number,
\* NewVideoStream (the request sent and the output file created) returns an
\* error, does not crash, and leaves neither the output file's handle nor the
\* response body open.
C3_MissingLengthFailsCleanly ==
    (NewVideoStreamEnded /\ fileExists /\ ~UsableLength) =>
        /\ pc # "crashed"
        /\ ctorErr \notin {None, "nil"}
        /\ ~fileOpen
        /\ ~bodyOpen

\* C4: when the body ends before the sample size has been read (and nothing
\* else fails), getBandwidth returns no error and its estimate is computed
\* from the bytes actually read.
C4_PartialSample ==
    (vs # Nil /\ S < SampleSize /\ faults = <<>> /\ pc \in {"last", "streamret"}) =>
        /\ pc = "last"
        /\ bw[1] = sampleRead

\* C5: the bufferTime StartStream computes is
\* max(0, (Size / bandwidth) * fudgeFactor - Duration): never negative, 0 when
\* the estimated download time is at most the duration, and their difference
\* otherwise.  With downloadTime = P / Q for P = Size * seconds * FudgeNum and
\* Q = bytes * FudgeDen, the comparisons are cross-multiplied.
C5_BufferTime ==
    bw[1] > 0 =>
        LET P == vs.Size * bw[2] * FudgeNum
            Q == bw[1] * FudgeDen
            D == vs.Duration
        IN  /\ bufferTime[2] > 0
            /\ bufferTime[1] >= 0
            /\ (P <= D * Q => bufferTime[1] = 0)
            /\ (P > D * Q => bufferTime[1] * Q = (P - D * Q) * bufferTime[2])

\* C5's case: an estimate whose download time exceeds a positive duration.
C5_Witness == bw[1] > 0 /\ vs.Duration > 0 /\ bufferTime[1] > 0

\* C6: in main, after NewVideoStream fails the error is printed and main
\* returns without starting to stream and without crashing; after StartStream
\* fails its error is printed.
C6_MainReportsAndReturns ==
    caller = "main" =>
        /\ (ctorErr \notin {None, "nil"} /\ pc # "newret") =>
              (pc = "exit" /\ "Error creating video stream" \in printed)
        /\ (streamErr \notin {None, "nil"} /\ pc = "exit") =>
              "Error streaming" \in printed

\* C7: once a session's streaming has returned and the run is over, the
\* output file's handle and the network connection are both released.
C7_ResourcesReleased ==
    (pc = "exit" /\ streamErr # None) => (~fileOpen /\ ~bodyOpen)

\* C8: when NewVideoStream succeeds against a response whose Content-Length
\* is the decimal number S, the session's Size is S and not negative, its
\* Duration is the duration passed in, and the output file exists.
C8_SessionFields ==
    (pc = "newret" /\ ctorErr = "nil" /\ hdr = <<Itoa(S)>>) =>
        /\ vs # Nil
        /\ vs.Size = S
        /\ vs.Size >= 0
        /\ vs.Duration = duration
        /\ fileExists

\* C8's case: NewVideoStream has returned a session for a resource that is
\* not empty, with a duration that is not 0.
C8_Witness ==
    pc = "newret" /\ ctorErr = "nil" /\ vs # Nil /\ S > 0 /\ duration > 0

\* C9: with no transport, seek or write failure, the copy loop ends and
\* StartStream returns no error, whatever the size of the resource.
C9_CleanEndOfStream ==
    (CopyReturned /\ faults = <<>>) => streamErr = "nil"

\* C10: a transport or write failure met by StartStream is the error
\* StartStream returns; a failed write is never ignored.
C10_IOErrorsSurface ==
    (pc = "streamret" /\ faults # <<>>) => streamErr = faults[1]

\* C11, as claimed: over a whole run (here one that met no i/o failure) the
\* bytes are written in strictly increasing offset order, each offset at most
\* once: every write starts at or after the end of the write before it.
C11_StrictlyIncreasingOffsets ==
    faults = <<>> =>
        \A i \in 1..(Len(writes) - 1) :
            writes[i][1] + writes[i][2] <= writes[i + 1][1]

\* C11, amended: the first write is the last chunk, at offset
\* Size - chunkSize; the copy loop's writes then start at offset 0 and each
\* starts exactly where the one before it ended, so the loop writes in
\* strictly increasing offset order and each offset at most once (the last
\* chunk's offsets are written a second time when the loop reaches them).
C11_SequentialAfterLastChunk ==
    /\ Len(writes) >= 1 => writes[1][1] = vs.Size - chunkSize
    /\ Len(writes) >= 2 => writes[2][1] = 0
    /\ \A i \in 2..(Len(writes) - 1) :
          writes[i + 1][1] = writes[i][1] + writes[i][2]

\* C11's case: the last chunk was written whole, and the loop has written a
\* chunk at 0 and gone on to the next offset.
C11_Witness ==
    /\ Len(writes) >= 3
    /\ writes[1][2] = chunkSize
    /\ writes[2] = <<0, chunkSize>>
    /\ writes[3][1] = chunkSize

\* bufferTime has passed on the loop's clock: every reading of
\* time.Since(tstart) from now on is greater than bufferTime.
BufferTimePassed == clock * bufferTime[2] >= bufferTime[1]

\* C12: the notification is not printed before bufferTime has passed since
\* the start of the copy phase (a reading taken in the clock's current second
\* can exceed bufferTime), and once bufferTime has passed it has been printed
\* by the time the copy loop has finished, whatever the loop was doing when
\* it passed (here in a run that met no i/o failure and returned no error).
C12_TimerIndependentOfCopy ==
    /\ readyCount > 0 => (clock + 1) * bufferTime[2] > bufferTime[1]
    /\ (CopyReturned /\ streamErr = "nil" /\ faults = <<>> /\ BufferTimePassed) =>
          readyCount = 1

=============================================================================
